---- MODULE Spec2Model ----
(***************************************************************************)
(* A model of crawl.py: the worker loop parse_url, the report writer       *)
(* output_dupimgs and the orchestrator Crawler.__init__, over a small      *)
(* family of web sites.                                                    *)
(*                                                                         *)
(* A URL string is modelled by the components urlparse splits it into:     *)
(* scheme, netloc (host and port), path (leading slash and segments) and   *)
(* fragment.  params and query are carried through unchanged by the code   *)
(* and are left out.                                                       *)
(*                                                                         *)
(* Each action is one step of a process on the shared objects (the queue,  *)
(* the manager's lists, the lock, the files) together with the local       *)
(* computation that follows it.  The queue hands the items out in the      *)
(* order of the puts.  url, level and invalid_urls of a worker are reset   *)
(* when it goes back to queue.get(), where the code overwrites them.       *)
(***************************************************************************)
EXTENDS Integers, Sequences, FiniteSets, Bags, TLC

\* ------------------------------------------------------------------ bounds
\* mp.cpu_count() is drawn from 1..MaxWorkers, --depth from 0..MaxDepthArg.
MaxWorkers == 2
MaxDepthArg == 2

\* ------------------------------------------------------------------ URLs
Netloc(h, p) == [host |-> h, port |-> p]
NoNetloc == Netloc("", "")
Path(a, s) == [abs |-> a, segs |-> s]

\* "http://<netloc>/<segs>"
Url(n, s) == [scheme |-> "http", netloc |-> n, path |-> Path(TRUE, s), fragment |-> ""]
\* a raw attribute value without scheme and netloc: "/<segs>" or "<segs>"
Rel(a, s) == [scheme |-> "", netloc |-> NoNetloc, path |-> Path(a, s), fragment |-> ""]

XTest == Netloc("x.test", "")
XTest80 == Netloc("x.test", "80")
OtherTest == Netloc("other.test", "")
\* "http://[": an opening bracket in the netloc without the closing one
BadNetloc == Netloc("[", "")

\* URLError
EXTERNAL_DOMAIN == "URLError.EXTERNAL_DOMAIN"
DOWNLOAD_ERROR == "URLError.DOWNLOAD_ERROR"
PARSE_ERROR == "URLError.PARSE_ERROR"

\* validate_url: urlparse splits the string, and raises ValueError("Invalid
\* IPv6 URL") on unbalanced brackets in the netloc; the ValueError is not the
\* exception validate_url catches, so it leaves validate_url.  None is returned
\* only when the parse is interrupted, which no step of this model does.
validate_url(url) ==
    IF url.netloc.host = "[" THEN [kind |-> "raise"] ELSE [kind |-> "ok", p |-> url]

\* Path("/{}/{}".format(parent, link)).resolve(): the segments of both paths,
\* ".." removing the segment before it (and nothing at the root).
RECURSIVE Collapse(_, _)
Collapse(done, rest) ==
    IF rest = <<>> THEN done
    ELSE IF Head(rest) = ".."
         THEN Collapse(IF done = <<>> THEN done ELSE SubSeq(done, 1, Len(done) - 1), Tail(rest))
         ELSE Collapse(Append(done, Head(rest)), Tail(rest))

resolve(parentPath, linkPath) == Path(TRUE, Collapse(<<>>, parentPath.segs \o linkPath.segs))

HasDotDot(path) == \E i \in 1..Len(path.segs) : path.segs[i] = ".."

\* urlunparse: with a netloc, a non-empty path gets its leading slash.
urlunparse(t) ==
    IF t.netloc # NoNetloc /\ t.path.segs # <<>> /\ ~t.path.abs
    THEN [t EXCEPT !.path = Path(TRUE, t.path.segs)]
    ELSE t

\* lines 106-113: the link with scheme and netloc supplied from the page, ".."
\* resolved against the page's path and the fragment dropped
new_link(url_parsed, p) ==
    urlunparse([scheme |-> IF p.scheme = "" THEN url_parsed.scheme ELSE p.scheme,
                netloc |-> IF p.netloc = NoNetloc THEN url_parsed.netloc ELSE p.netloc,
                path |-> IF HasDotDot(p.path) THEN resolve(url_parsed.path, p.path) ELSE p.path,
                fragment |-> ""])

\* lines 100-121: the loop over the links of a page.  The result holds
\* invalid_urls and valid_urls as the loop leaves them, and whether a
\* validate_url call raised (which ends the loop at that link).  A link
\* validate_url gives None for is a PARSE_ERROR.
RECURSIVE classify(_, _, _, _)
classify(url_parsed, links, inv, val) ==
    IF links = <<>> THEN [raised |-> FALSE, invalid_urls |-> inv, valid_urls |-> val]
    ELSE LET r1 == validate_url(Head(links)) IN
         IF r1.kind = "raise" THEN [raised |-> TRUE, invalid_urls |-> inv, valid_urls |-> val]
         ELSE IF r1.kind = "none"
         THEN classify(url_parsed, Tail(links), Append(inv, <<Head(links), PARSE_ERROR>>), val)
         ELSE LET nl == new_link(url_parsed, r1.p)
                  r2 == validate_url(nl) IN
              IF r2.kind = "raise" THEN [raised |-> TRUE, invalid_urls |-> inv, valid_urls |-> val]
              ELSE IF r2.kind = "none"
              THEN classify(url_parsed, Tail(links), Append(inv, <<nl, PARSE_ERROR>>), val)
              ELSE IF r2.p.netloc # url_parsed.netloc
                   THEN classify(url_parsed, Tail(links), Append(inv, <<nl, EXTERNAL_DOMAIN>>), val)
                   ELSE classify(url_parsed, Tail(links), inv, Append(val, nl))

\* ------------------------------------------------------------------ sites
\* What requests.get and the response give for a URL of a site.
Fail == [ok |-> FALSE, ctype |-> "", links |-> <<>>, hash |-> "", throws |-> FALSE]
Html(l) == [ok |-> TRUE, ctype |-> "text/html", links |-> l, hash |-> "", throws |-> FALSE]
\* a page on which BeautifulSoup raises
HtmlThrows == [ok |-> TRUE, ctype |-> "text/html", links |-> <<>>, hash |-> "", throws |-> TRUE]
Image(h) == [ok |-> TRUE, ctype |-> "image/png", links |-> <<>>, hash |-> h, throws |-> FALSE]
Plain == [ok |-> TRUE, ctype |-> "text/plain", links |-> <<>>, hash |-> "", throws |-> FALSE]

Root == Url(XTest, <<>>)
PA == Url(XTest, <<"a">>)
PX == Url(XTest, <<"x">>)
PY == Url(XTest, <<"y">>)
PImg == Url(XTest, <<"i.png">>)
PImg2 == Url(XTest, <<"j.png">>)
PDead == Url(XTest, <<"dead">>)

\* the seed links to itself
SiteSelf == (Root :> Html(<<Rel(TRUE, <<>>)>>))

\* /x is one hop from the seed and two hops through /a; /y is behind /x
SiteRace ==
    (Root :> Html(<<Rel(TRUE, <<"a">>), Rel(TRUE, <<"x">>)>>)) @@
    (PA :> Html(<<Rel(TRUE, <<"x">>)>>)) @@
    (PX :> Html(<<Rel(TRUE, <<"y">>)>>)) @@
    (PY :> Plain)

\* links to another host, to the seed's host with its port spelled out, a
\* relative link with a fragment and ".."
SiteDomain ==
    (Root :> Html(<<Url(OtherTest, <<"b">>), Url(XTest80, <<"a">>),
                    [Rel(FALSE, <<"a">>) EXCEPT !.fragment = "top"]>>)) @@
    (PA :> Html(<<Rel(FALSE, <<"..", "y">>), Url(OtherTest, <<"b">>)>>)) @@
    (PY :> Plain)

\* an image linked from two pages, and a second URL with the same bytes
SiteImg ==
    (Root :> Html(<<Rel(TRUE, <<"a">>), Rel(TRUE, <<"i.png">>)>>)) @@
    (PA :> Html(<<Rel(TRUE, <<"i.png">>)>>)) @@
    (PImg :> Image("h1"))

SiteDup ==
    (Root :> Html(<<Rel(TRUE, <<"i.png">>), Rel(TRUE, <<"j.png">>)>>)) @@
    (PImg :> Image("h1")) @@
    (PImg2 :> Image("h1"))

\* a dead link, a page the extractor fails on, a page with an unparsable link
SiteErr ==
    (Root :> Html(<<Rel(TRUE, <<"dead">>), Rel(TRUE, <<"a">>), Rel(TRUE, <<"x">>)>>)) @@
    (PA :> HtmlThrows) @@
    (PX :> Html(<<Url(OtherTest, <<"b">>), Url(BadNetloc, <<>>), Rel(TRUE, <<"y">>)>>)) @@
    (PY :> Plain)

\* "::not a url::" as the value of an href: urlparse splits it as a relative
\* path of one segment, without scheme and netloc
NotAUrl == Rel(FALSE, <<"::not a url::">>)
PNotAUrl == Url(XTest, <<"::not a url::">>)

\* a page with the malformed link before a good one
SiteMalformed ==
    (Root :> Html(<<NotAUrl, Rel(TRUE, <<"y">>)>>)) @@
    (PY :> Plain)

\* the run is started with "http://[" as its URL
BadRoot == Url(BadNetloc, <<>>)
SiteBadSeed == (BadRoot :> Fail)

Sites == {SiteSelf, SiteRace, SiteDomain, SiteImg, SiteDup, SiteErr, SiteMalformed, SiteBadSeed}

\* requests.get(url) followed by raise_for_status(): a URL the site does not
\* serve fails with a RequestException
Fetch(s, u) == IF u \in DOMAIN s THEN s[u] ELSE Fail

\* ------------------------------------------------------------------ state
VARIABLES
    site,                   \* the web site the run crawls
    nworkers,               \* mp.cpu_count()
    MAX_DEPTH_LEVEL,        \* args.depth
    queue,                  \* self.queue: the (url, level) items not yet got
    unfinished,             \* self.queue's count of items put and not yet task_done
    visited_urls,           \* self.visited_urls
    duplicate_images_urls,  \* self.duplicate_images_urls: (hash, url) pairs
    valid_rows,             \* the rows flushed to valid_urls_fd
    invalid_rows,           \* the rows flushed to invalid_urls_fd
    dupimg_rows,            \* the rows written to duplicate_img_fd
    ol,                     \* self.output_lock: 0 when free, else the holder
    pc,                     \* where each worker is in parse_url
    url, level,             \* parse_url's url, level of each worker
    invalid_urls,           \* parse_url's invalid_urls of each worker
    topush,                 \* the part of set(valid_urls) the loop of line 124 has not reached
    putting,                \* the u of the loop of line 124, between its test and its put
    mainpc,                 \* where Crawler.__init__ is
    fetches,                \* history: the bag of (url, level) given to requests.get
    discovered,             \* history: (url, level of the page) for every queue.put of a worker
    turn                    \* history: what each worker wrote and caught for the item it holds

vars == <<site, nworkers, MAX_DEPTH_LEVEL, queue, unfinished, visited_urls,
          duplicate_images_urls, valid_rows, invalid_rows, dupimg_rows, ol, pc,
          url, level, invalid_urls, topush, putting, mainpc, fetches, discovered, turn>>

conf == <<site, nworkers, MAX_DEPTH_LEVEL>>
sinks == <<valid_rows, invalid_rows, dupimg_rows>>
locals == <<url, level, invalid_urls, topush, putting>>
history == <<fetches, discovered, turn>>

\* of a turn of the loop: the rows written to the valid file, the rows written
\* to the invalid file for the item's URL and for other URLs, the items put,
\* and whether the handler of line 135 ran
NoTurn == [valid |-> 0, own |-> 0, sub |-> 0, puts |-> 0, error |-> FALSE]
RowsOf(rows, u) == {i \in 1..Len(rows) : rows[i][1] = u}

Workers == 1..MaxWorkers
Started == 1..nworkers
\* args.url
starting_url == IF site = SiteBadSeed THEN BadRoot ELSE Root
NoUrl == Rel(FALSE, <<>>)

InSeq(x, s) == \E i \in 1..Len(s) : s[i] = x
SeqToSet(s) == {s[i] : i \in 1..Len(s)}

\* lines 176-198: the shared objects are empty, the files are open and empty,
\* and every started worker waits in queue.get()
Init ==
    /\ site \in Sites
    /\ nworkers \in 1..MaxWorkers
    /\ MAX_DEPTH_LEVEL \in 0..MaxDepthArg
    /\ queue = <<>>
    /\ unfinished = 0
    /\ visited_urls = <<>>
    /\ duplicate_images_urls = <<>>
    /\ valid_rows = <<>>
    /\ invalid_rows = <<>>
    /\ dupimg_rows = <<>>
    /\ ol = 0
    /\ pc = [w \in Workers |-> IF w <= nworkers THEN "get" ELSE "unused"]
    /\ url = [w \in Workers |-> NoUrl]
    /\ level = [w \in Workers |-> 0]
    /\ invalid_urls = [w \in Workers |-> <<>>]
    /\ topush = [w \in Workers |-> {}]
    /\ putting = [w \in Workers |-> NoUrl]
    /\ mainpc = "put"
    /\ fetches = EmptyBag
    /\ discovered = {}
    /\ turn = [w \in Workers |-> NoTurn]

\* ------------------------------------------------------------------ worker
\* the test of line 60 lets one more level through
TooDeep_OffByOne(l) == l > MAX_DEPTH_LEVEL + 1

\* line 60: level > MAX_DEPTH_LEVEL
TooDeep(l) == l > MAX_DEPTH_LEVEL

\* the put of line 126 passes the page's own level on
NextLevel_Same(l) == l

\* line 126: level + 1
NextLevel(l) == l + 1

\* lines 55-62: queue.get(), and the test of the level
Get(w) ==
    /\ pc[w] = "get"
    /\ queue # <<>>
    /\ queue' = Tail(queue)
    /\ url' = [url EXCEPT ![w] = Head(queue)[1]]
    /\ level' = [level EXCEPT ![w] = Head(queue)[2]]
    /\ invalid_urls' = [invalid_urls EXCEPT ![w] = <<>>]
    /\ topush' = [topush EXCEPT ![w] = {}]
    /\ UNCHANGED putting
    /\ pc' = [pc EXCEPT ![w] = IF TooDeep(Head(queue)[2]) THEN "skip_deep" ELSE "check_visited"]
    /\ UNCHANGED <<conf, unfinished, visited_urls, duplicate_images_urls, sinks, ol, mainpc, history>>

\* the item goes on to be processed whether its URL is visited or not
CheckVisited_Ignores(w) ==
    /\ pc[w] = "check_visited"
    /\ pc' = [pc EXCEPT ![w] = "log"]
    /\ UNCHANGED <<conf, queue, unfinished, visited_urls, duplicate_images_urls, sinks, ol,
                   locals, mainpc, history>>

\* lines 64-65: url in visited_urls
CheckVisited(w) ==
    /\ pc[w] = "check_visited"
    /\ pc' = [pc EXCEPT ![w] = IF InSeq(url[w], visited_urls) THEN "skip_visited" ELSE "log"]
    /\ UNCHANGED <<conf, queue, unfinished, visited_urls, duplicate_images_urls, sinks, ol,
                   locals, mainpc, history>>

\* the block is entered without waiting for the lock
Acquire_NoWait(w, from, to) ==
    /\ pc[w] = from
    /\ ol' = w
    /\ pc' = [pc EXCEPT ![w] = to]

\* a "with ol:" block is entered at pc = from, which leads to pc = to
Acquire(w, from, to) ==
    /\ pc[w] = from
    /\ ol = 0
    /\ ol' = w
    /\ pc' = [pc EXCEPT ![w] = to]

\* lines 70-73: the progress line on stdout, under the lock
LogAcquire(w) ==
    /\ Acquire(w, "log", "log_held")
    /\ UNCHANGED <<conf, queue, unfinished, visited_urls, duplicate_images_urls, sinks,
                   locals, mainpc, history>>

\* the block of line 70 goes on over the fetch
LogRelease_KeepsLock(w) ==
    /\ pc[w] = "log_held"
    /\ pc' = [pc EXCEPT ![w] = "fetch"]
    /\ UNCHANGED <<conf, queue, unfinished, visited_urls, duplicate_images_urls, sinks, ol,
                   locals, mainpc, history>>

LogRelease(w) ==
    /\ pc[w] = "log_held"
    /\ ol' = 0
    /\ pc' = [pc EXCEPT ![w] = "fetch"]
    /\ UNCHANGED <<conf, queue, unfinished, visited_urls, duplicate_images_urls, sinks,
                   locals, mainpc, history>>

\* the handler of line 83 records the failure and does not raise InvalidUrl:
\* the worker goes on as after a download
DoFetch_NoRaise(w) ==
    /\ pc[w] = "fetch"
    /\ IF validate_url(url[w]).kind = "raise"
       THEN /\ pc' = [pc EXCEPT ![w] = "error"]
            /\ UNCHANGED <<invalid_urls, fetches>>
       ELSE IF validate_url(url[w]).kind = "none"
       THEN /\ invalid_urls' = [invalid_urls EXCEPT ![w] = Append(@, <<url[w], PARSE_ERROR>>)]
            /\ pc' = [pc EXCEPT ![w] = "invalid"]
            /\ UNCHANGED fetches
       ELSE /\ fetches' = fetches (+) SetToBag({<<url[w], level[w]>>})
            /\ IF Fetch(site, url[w]).ok
               THEN /\ pc' = [pc EXCEPT ![w] = "valid"]
                    /\ UNCHANGED invalid_urls
               ELSE /\ invalid_urls' = [invalid_urls EXCEPT ![w] = Append(@, <<url[w], DOWNLOAD_ERROR>>)]
                    /\ pc' = [pc EXCEPT ![w] = "valid"]
    /\ UNCHANGED <<conf, queue, unfinished, visited_urls, duplicate_images_urls, sinks, ol,
                   url, level, topush, putting, mainpc, discovered, turn>>

\* lines 75-86: validate_url(url), requests.get(url), raise_for_status()
DoFetch(w) ==
    /\ pc[w] = "fetch"
    /\ IF validate_url(url[w]).kind = "raise"
       THEN /\ pc' = [pc EXCEPT ![w] = "error"]
            /\ UNCHANGED <<invalid_urls, fetches>>
       ELSE IF validate_url(url[w]).kind = "none"
       THEN /\ invalid_urls' = [invalid_urls EXCEPT ![w] = Append(@, <<url[w], PARSE_ERROR>>)]
            /\ pc' = [pc EXCEPT ![w] = "invalid"]
            /\ UNCHANGED fetches
       ELSE /\ fetches' = fetches (+) SetToBag({<<url[w], level[w]>>})
            /\ IF Fetch(site, url[w]).ok
               THEN /\ pc' = [pc EXCEPT ![w] = "valid"]
                    /\ UNCHANGED invalid_urls
               ELSE /\ invalid_urls' = [invalid_urls EXCEPT ![w] = Append(@, <<url[w], DOWNLOAD_ERROR>>)]
                    /\ pc' = [pc EXCEPT ![w] = "invalid"]
    /\ UNCHANGED <<conf, queue, unfinished, visited_urls, duplicate_images_urls, sinks, ol,
                   url, level, topush, putting, mainpc, discovered, turn>>

\* lines 89-92: the row [url, level] of the valid file, written and flushed
\* under the lock
ValidAcquire(w) ==
    /\ Acquire(w, "valid", "valid_held")
    /\ UNCHANGED <<conf, queue, unfinished, visited_urls, duplicate_images_urls, sinks,
                   locals, mainpc, history>>

ValidWrite(w) ==
    /\ pc[w] = "valid_held"
    /\ valid_rows' = Append(valid_rows, <<url[w], level[w]>>)
    /\ turn' = [turn EXCEPT ![w].valid = @ + 1]
    /\ ol' = 0
    /\ pc' = [pc EXCEPT ![w] = "content"]
    /\ UNCHANGED <<conf, queue, unfinished, visited_urls, duplicate_images_urls,
                   invalid_rows, dupimg_rows, locals, mainpc, fetches, discovered>>

\* lines 94-131 without the puts: an HTML page is parsed and its links are
\* classified, an image is hashed and recorded, anything else is left alone
Content(w) ==
    LET resp == Fetch(site, url[w])
        c == classify(validate_url(url[w]).p, resp.links, invalid_urls[w], <<>>) IN
    /\ pc[w] = "content"
    /\ IF resp.ctype = "text/html"
       THEN IF resp.throws
            THEN /\ pc' = [pc EXCEPT ![w] = "error"]
                 /\ UNCHANGED <<invalid_urls, topush, duplicate_images_urls>>
            ELSE /\ invalid_urls' = [invalid_urls EXCEPT ![w] = c.invalid_urls]
                 /\ topush' = [topush EXCEPT ![w] = IF c.raised THEN {} ELSE SeqToSet(c.valid_urls)]
                 /\ pc' = [pc EXCEPT ![w] = IF c.raised THEN "error" ELSE "push"]
                 /\ UNCHANGED duplicate_images_urls
       ELSE IF resp.ctype = "image/png"
            THEN /\ duplicate_images_urls' = Append(duplicate_images_urls, <<resp.hash, url[w]>>)
                 /\ pc' = [pc EXCEPT ![w] = "invalid"]
                 /\ UNCHANGED <<invalid_urls, topush>>
            ELSE /\ pc' = [pc EXCEPT ![w] = "invalid"]
                 /\ UNCHANGED <<invalid_urls, topush, duplicate_images_urls>>
    /\ UNCHANGED <<conf, queue, unfinished, visited_urls, sinks, ol, url, level, putting, mainpc, history>>

\* lines 124-125, one turn of the loop: some u of set(valid_urls), and the
\* test u not in visited_urls
PushCheck(w) ==
    /\ pc[w] = "push"
    /\ topush[w] # {}
    /\ \E u \in topush[w] :
        /\ topush' = [topush EXCEPT ![w] = @ \ {u}]
        /\ IF InSeq(u, visited_urls)
           THEN UNCHANGED <<pc, putting>>
           ELSE /\ putting' = [putting EXCEPT ![w] = u]
                /\ pc' = [pc EXCEPT ![w] = "put"]
    /\ UNCHANGED <<conf, queue, unfinished, visited_urls, duplicate_images_urls, sinks, ol,
                   url, level, invalid_urls, mainpc, history>>

\* line 126: queue.put((u, level + 1))
Put(w) ==
    /\ pc[w] = "put"
    /\ queue' = Append(queue, <<putting[w], NextLevel(level[w])>>)
    /\ unfinished' = unfinished + 1
    /\ discovered' = discovered \cup {<<putting[w], level[w]>>}
    /\ putting' = [putting EXCEPT ![w] = NoUrl]
    /\ turn' = [turn EXCEPT ![w].puts = @ + 1]
    /\ pc' = [pc EXCEPT ![w] = "push"]
    /\ UNCHANGED <<conf, visited_urls, duplicate_images_urls, sinks, ol, url, level,
                   invalid_urls, topush, mainpc, fetches>>

\* the loop of line 124 is over
PushDone(w) ==
    /\ pc[w] = "push"
    /\ topush[w] = {}
    /\ pc' = [pc EXCEPT ![w] = "invalid"]
    /\ UNCHANGED <<conf, queue, unfinished, visited_urls, duplicate_images_urls, sinks, ol,
                   locals, mainpc, history>>

\* lines 135-138: the traceback on stderr, under the lock
ErrorAcquire(w) ==
    /\ Acquire(w, "error", "error_held")
    /\ UNCHANGED <<conf, queue, unfinished, visited_urls, duplicate_images_urls, sinks,
                   locals, mainpc, history>>

\* the exception is logged and ends the worker
ErrorRelease_EndsWorker(w) ==
    /\ pc[w] = "error_held"
    /\ ol' = 0
    /\ pc' = [pc EXCEPT ![w] = "terminated"]
    /\ UNCHANGED <<conf, queue, unfinished, visited_urls, duplicate_images_urls, sinks,
                   locals, mainpc, history>>

\* the handler adds a row for the URL to the rows of the invalid file
ErrorRelease_RecordsError(w) ==
    /\ pc[w] = "error_held"
    /\ turn' = [turn EXCEPT ![w].error = TRUE]
    /\ invalid_urls' = [invalid_urls EXCEPT ![w] = Append(@, <<url[w], PARSE_ERROR>>)]
    /\ ol' = 0
    /\ pc' = [pc EXCEPT ![w] = "invalid"]
    /\ UNCHANGED <<conf, queue, unfinished, visited_urls, duplicate_images_urls, sinks,
                   url, level, topush, putting, mainpc, fetches, discovered>>

ErrorRelease(w) ==
    /\ pc[w] = "error_held"
    /\ turn' = [turn EXCEPT ![w].error = TRUE]
    /\ ol' = 0
    /\ pc' = [pc EXCEPT ![w] = "invalid"]
    /\ UNCHANGED <<conf, queue, unfinished, visited_urls, duplicate_images_urls, sinks,
                   locals, mainpc, fetches, discovered>>

\* lines 140-144: the rows of invalid_urls, written and flushed under the lock
InvalidAcquire(w) ==
    /\ Acquire(w, "invalid", "invalid_held")
    /\ UNCHANGED <<conf, queue, unfinished, visited_urls, duplicate_images_urls, sinks,
                   locals, mainpc, history>>

InvalidWrite(w) ==
    /\ pc[w] = "invalid_held"
    /\ invalid_rows' = invalid_rows \o invalid_urls[w]
    /\ turn' = [turn EXCEPT ![w].own = @ + Cardinality(RowsOf(invalid_urls[w], url[w])),
                            ![w].sub = @ + Len(invalid_urls[w])
                                         - Cardinality(RowsOf(invalid_urls[w], url[w]))]
    /\ ol' = 0
    /\ pc' = [pc EXCEPT ![w] = "visited"]
    /\ UNCHANGED <<conf, queue, unfinished, visited_urls, duplicate_images_urls,
                   valid_rows, dupimg_rows, locals, mainpc, fetches, discovered>>

\* line 146: visited_urls.append(url)
MarkVisited(w) ==
    /\ pc[w] = "visited"
    /\ visited_urls' = Append(visited_urls, url[w])
    /\ pc' = [pc EXCEPT ![w] = "task_done"]
    /\ UNCHANGED <<conf, queue, unfinished, duplicate_images_urls, sinks, ol, locals,
                   mainpc, history>>

\* the end of a turn of the loop, with n calls of queue.task_done()
Leave(w, n) ==
    /\ unfinished' = unfinished - n
    /\ pc' = [pc EXCEPT ![w] = "get"]
    /\ url' = [url EXCEPT ![w] = NoUrl]
    /\ level' = [level EXCEPT ![w] = 0]
    /\ invalid_urls' = [invalid_urls EXCEPT ![w] = <<>>]
    /\ turn' = [turn EXCEPT ![w] = NoTurn]
    /\ UNCHANGED <<conf, queue, visited_urls, duplicate_images_urls, sinks, ol, topush,
                   putting, mainpc, fetches, discovered>>

\* the discard of a deep item goes on without queue.task_done()
SkipDeep_NoTaskDone(w) ==
    /\ pc[w] = "skip_deep"
    /\ Leave(w, 0)

\* lines 61-62: the item is too deep
SkipDeep(w) ==
    /\ pc[w] = "skip_deep"
    /\ Leave(w, 1)

\* lines 66-67: the URL is visited
SkipVisited(w) ==
    /\ pc[w] = "skip_visited"
    /\ Leave(w, 1)

\* line 147: the URL is processed
TaskDone(w) ==
    /\ pc[w] = "task_done"
    /\ Leave(w, 1)

\* ------------------------------------------------------------------ orchestrator
\* line 201: self.queue.put((starting_url, 0))
Seed ==
    /\ mainpc = "put"
    /\ queue' = Append(queue, <<starting_url, 0>>)
    /\ unfinished' = unfinished + 1
    /\ mainpc' = "join"
    /\ UNCHANGED <<conf, visited_urls, duplicate_images_urls, sinks, ol, pc, locals, history>>

\* line 202: self.queue.join() returns when no put item is left without its
\* task_done (JoinableQueue counts the puts and the task_dones)
\* the join is a test for an empty queue
JoinReady_QueueEmpty == queue = <<>>

JoinReady == unfinished = 0

\* the orchestrator goes on without waiting for the queue
Join_NoWait ==
    /\ mainpc = "join"
    /\ mainpc' = "report"
    /\ UNCHANGED <<conf, queue, unfinished, visited_urls, duplicate_images_urls, sinks, ol,
                   pc, locals, history>>

Join ==
    /\ mainpc = "join"
    /\ JoinReady
    /\ mainpc' = "report"
    /\ UNCHANGED <<conf, queue, unfinished, visited_urls, duplicate_images_urls, sinks, ol,
                   pc, locals, history>>

\* lines 159-161: the URLs recorded with hash h, in order of recording
RECURSIVE dp_imgs(_, _)
dp_imgs(records, h) ==
    IF records = <<>> THEN <<>>
    ELSE IF Head(records)[1] = h
         THEN <<Head(records)[2]>> \o dp_imgs(Tail(records), h)
         ELSE dp_imgs(Tail(records), h)

\* the hashes in order of first recording (the order of the dict's keys)
RECURSIVE hashes(_, _)
hashes(records, seen) ==
    IF records = <<>> THEN seen
    ELSE hashes(Tail(records),
                IF InSeq(Head(records)[1], seen) THEN seen ELSE Append(seen, Head(records)[1]))

\* lines 163-166: the rows [u, h] of every hash with more than one URL recorded
RECURSIVE dup_rows(_, _)
dup_rows(records, hs) ==
    IF hs = <<>> THEN <<>>
    ELSE LET urls == dp_imgs(records, Head(hs)) IN
         (IF Len(urls) > 1 THEN [i \in 1..Len(urls) |-> <<urls[i], Head(hs)>>] ELSE <<>>)
         \o dup_rows(records, Tail(hs))

\* lines 157-166: the header and the rows of the duplicate images
output_dupimgs(fd, records) ==
    fd \o <<(<<"URL", "md5">>)>> \o dup_rows(records, hashes(records, <<>>))

\* line 204: output_dupimgs(self.duplicate_img_fd, self.duplicate_images_urls)
Report ==
    /\ mainpc = "report"
    /\ dupimg_rows' = output_dupimgs(dupimg_rows, duplicate_images_urls)
    /\ mainpc' = "shutdown"
    /\ UNCHANGED <<conf, queue, unfinished, visited_urls, duplicate_images_urls,
                   valid_rows, invalid_rows, ol, pc, locals, history>>

\* lines 205-211: the manager is shut down and every worker is terminated
Shutdown ==
    /\ mainpc = "shutdown"
    /\ pc' = [w \in Workers |-> IF w \in Started THEN "terminated" ELSE pc[w]]
    /\ mainpc' = "close"
    /\ UNCHANGED <<conf, queue, unfinished, visited_urls, duplicate_images_urls, sinks, ol,
                   locals, history>>

\* lines 214-216: the three files are closed
Close ==
    /\ mainpc = "close"
    /\ mainpc' = "done"
    /\ UNCHANGED <<conf, queue, unfinished, visited_urls, duplicate_images_urls, sinks, ol,
                   pc, locals, history>>

Worker(w) ==
    \/ Get(w) \/ CheckVisited(w) \/ LogAcquire(w) \/ LogRelease(w) \/ DoFetch(w)
    \/ ValidAcquire(w) \/ ValidWrite(w) \/ Content(w) \/ PushCheck(w) \/ Put(w) \/ PushDone(w)
    \/ ErrorAcquire(w) \/ ErrorRelease(w) \/ InvalidAcquire(w) \/ InvalidWrite(w)
    \/ MarkVisited(w) \/ SkipDeep(w) \/ SkipVisited(w) \/ TaskDone(w)

Main == Seed \/ Join \/ Report \/ Shutdown \/ Close

Next == (\E w \in Workers : Worker(w)) \/ Main

Spec == Init /\ [][Next]_vars

\* line 202 under the try of line 200: a KeyboardInterrupt (SIGINT sent to the
\* orchestrator's process) is raised in queue.join() and the finally block of
\* line 203 runs, with the workers where they are
KeyboardInterrupt ==
    /\ mainpc = "join"
    /\ mainpc' = "report"
    /\ UNCHANGED <<conf, queue, unfinished, visited_urls, duplicate_images_urls, sinks, ol,
                   pc, locals, history>>

NextStop == Next \/ KeyboardInterrupt

\* the runs that may be interrupted
SpecStop == Init /\ [][NextStop]_vars

\* the workers run in parallel, each in a process of its own, and the
\* orchestrator in the main process: none of them waits for ever at a step it
\* can take
FairSpec == Spec /\ (\A w \in Workers : WF_vars(Worker(w))) /\ WF_vars(Main)

\* ------------------------------------------------------------------ properties
\* a worker holds an item it got and has not yet marked done
Holding(w) == pc[w] \notin {"get", "unused", "terminated"}
JoinReturned == mainpc \in {"report", "shutdown", "close", "done"}
ValidRowsOf(u) == {i \in 1..Len(valid_rows) : valid_rows[i][1] = u}
FetchedLevels(u) == {e \in BagToSet(fetches) : e[1] = u}

\* C1: once the join has returned the queue is empty, the count of items put
\* and not marked done is zero, and no worker holds an item (so none can put
\* another one).
C1_JoinDrained ==
    JoinReturned =>
        /\ queue = <<>>
        /\ unfinished = 0
        /\ \A w \in Started : ~Holding(w) /\ topush[w] = {}

\* the join has returned in a run of several workers that put links
W_C1 == mainpc = "report" /\ nworkers > 1 /\ Len(visited_urls) > 2 /\ discovered # {}

\* C2: under fair scheduling every run ends: the queue is drained, the join is
\* passed, the report is written and the workers are stopped.
C2_Terminates ==
    <>(/\ mainpc = "done"
       /\ queue = <<>>
       /\ dupimg_rows # <<>>
       /\ \A w \in Workers : pc[w] \in {"terminated", "unused"})

\* a run has ended in which an item of depth MAX_DEPTH_LEVEL + 1 was put
W_C2 == mainpc = "done" /\ \E d \in discovered : d[2] = MAX_DEPTH_LEVEL

\* C3: the items put and not marked done are the queued ones and the ones a
\* worker holds (one task_done per item got, whatever the path); the step that
\* marks an item done leads back to queue.get(); and a worker that holds an
\* item comes back to queue.get().
C3Balance == unfinished = Len(queue) + Cardinality({w \in Started : Holding(w)})
C3Step ==
    \A w \in Workers :
        (pc[w] \in {"skip_deep", "skip_visited", "task_done"} /\ pc'[w] # pc[w]) =>
            (pc'[w] = "get" /\ unfinished' = unfinished - 1)
C3_MarkedDoneOnce ==
    /\ []C3Balance
    /\ [][C3Step]_vars
    /\ \A w \in Workers : Holding(w) ~> (pc[w] \in {"get", "terminated"})

\* a run has ended with workers left to stop after a failed download, a page
\* the extractor failed on and a page with an unparsable link
W_C3 ==
    /\ mainpc = "shutdown"
    /\ site = SiteErr
    /\ InSeq(<<PDead, DOWNLOAD_ERROR>>, invalid_rows)
    /\ InSeq(PA, visited_urls)
    /\ InSeq(PX, visited_urls)
    /\ \A w \in Started : pc[w] = "get"

\* C4: nothing is fetched with a level above MAX_DEPTH_LEVEL, no row of the
\* valid file has one, and a URL that only pages of level MAX_DEPTH_LEVEL
\* linked to is not fetched.
OnlyViaMaxDepth(u) ==
    /\ u # starting_url
    /\ \E d \in discovered : d[1] = u
    /\ \A d \in discovered : d[1] = u => d[2] = MAX_DEPTH_LEVEL
C4_DepthBound ==
    /\ \A e \in BagToSet(fetches) : e[2] <= MAX_DEPTH_LEVEL
    /\ \A w \in Started : pc[w] \in {"fetch", "valid", "valid_held", "content", "push", "put"}
                            => level[w] <= MAX_DEPTH_LEVEL
    /\ \A i \in 1..Len(valid_rows) : valid_rows[i][2] <= MAX_DEPTH_LEVEL
    /\ \A d \in discovered : OnlyViaMaxDepth(d[1]) => FetchedLevels(d[1]) = {}

\* a run has ended with a URL that only a page of the deepest level linked to
W_C4 ==
    /\ mainpc = "done"
    /\ MAX_DEPTH_LEVEL > 0
    /\ \E d \in discovered : OnlyViaMaxDepth(d[1]) /\ d[1] \in DOMAIN site

\* C5 as stated: no item of the queue has a level above MAX_DEPTH_LEVEL.
C5_NoDeepItemQueued == \A i \in 1..Len(queue) : queue[i][2] <= MAX_DEPTH_LEVEL

\* C5 amended: no item of the queue has a level above MAX_DEPTH_LEVEL + 1.
C5_QueuedAtMostOneDeeper == \A i \in 1..Len(queue) : queue[i][2] <= MAX_DEPTH_LEVEL + 1

\* an item of level MAX_DEPTH_LEVEL + 1 is in the queue
W_C5 == \E i \in 1..Len(queue) : queue[i][2] = MAX_DEPTH_LEVEL + 1

\* C6 as stated: no URL has more than one row in the valid file, and no URL is
\* given to requests.get more than once.
FetchCount(u) == BagCardinality([e \in FetchedLevels(u) |-> fetches[e]])
C6_AtMostOnce ==
    /\ \A i \in 1..Len(valid_rows) : Cardinality(ValidRowsOf(valid_rows[i][1])) <= 1
    /\ \A e \in BagToSet(fetches) : FetchCount(e[1]) <= 1

\* C7 as stated: when the run of a seed that parses is over, every URL within
\* MAX_DEPTH_LEVEL links of the seed, through pages that were fetched and whose links were all
\* classified, has a row in the valid file or a DOWNLOAD_ERROR row.
PageLinks(s, u) ==
    LET resp == Fetch(s, u)
        c == classify(u, resp.links, <<>>, <<>>) IN
    IF resp.ok /\ resp.ctype = "text/html" /\ ~resp.throws /\ ~c.raised
    THEN SeqToSet(c.valid_urls) ELSE {}
RECURSIVE Within(_, _)
Within(s, k) ==
    IF k = 0 THEN {starting_url}
    ELSE LET prev == Within(s, k - 1) IN prev \cup UNION {PageLinks(s, u) : u \in prev}
Attempted(u) == ValidRowsOf(u) # {} \/ InSeq(<<u, DOWNLOAD_ERROR>>, invalid_rows)
C7_AllWithinDepthAttempted ==
    (mainpc = "done" /\ validate_url(starting_url).kind = "ok") =>
        \A u \in Within(site, MAX_DEPTH_LEVEL) : Attempted(u)

\* C8 as stated: the URL of every row of the valid file and of every queued item
\* has the seed's host, and the URL of every EXTERNAL_DOMAIN row has another host.
hostname(u) == u.netloc.host
C8_DomainConfined ==
    /\ \A i \in 1..Len(valid_rows) : hostname(valid_rows[i][1]) = hostname(starting_url)
    /\ \A i \in 1..Len(queue) : hostname(queue[i][1]) = hostname(starting_url)
    /\ \A i \in 1..Len(invalid_rows) :
        invalid_rows[i][2] = EXTERNAL_DOMAIN => hostname(invalid_rows[i][1]) # hostname(starting_url)

\* C9 as stated: every row (url, hash) of the report has a hash that was
\* recorded for two distinct URLs at least.
UrlsWithHash(h) ==
    {duplicate_images_urls[i][2] : i \in {j \in 1..Len(duplicate_images_urls) :
                                             duplicate_images_urls[j][1] = h}}
C9_ReportOnlyShared ==
    \A i \in 2..Len(dupimg_rows) : Cardinality(UrlsWithHash(dupimg_rows[i][2])) >= 2

\* C10: the report is written in one step of the orchestrator, after the join,
\* when no worker holds an item or the lock; from then on it is the header and
\* the rows of the recorded images, and no worker changes the recorded images,
\* the visited URLs, the valid file or the invalid file.
ReportWritten == mainpc \in {"shutdown", "close", "done"}
C10Final ==
    IF ReportWritten
    THEN dupimg_rows = output_dupimgs(<<>>, duplicate_images_urls) /\ ol = 0
    ELSE dupimg_rows = <<>>
C10Step ==
    /\ dupimg_rows' # dupimg_rows =>
        /\ mainpc = "report" /\ mainpc' = "shutdown"
        /\ ol = 0
        /\ \A w \in Started : ~Holding(w)
        /\ UNCHANGED pc
    /\ ReportWritten =>
        UNCHANGED <<duplicate_images_urls, visited_urls, valid_rows, invalid_rows, dupimg_rows>>
C10_ReportOnceFromFinalState == []C10Final /\ [][C10Step]_vars

\* a run of several workers has ended with a report of two URLs of one hash
W_C10 == mainpc = "done" /\ nworkers > 1 /\ Len(dupimg_rows) = 3

\* the worker that takes the step
Acts(w) == pc'[w] # pc[w] /\ \A v \in Workers \ {w} : pc'[v] = pc[v]

\* C11 as stated: a worker that changes visited_urls or duplicate_images_urls
\* holds the lock ol when it does.
C11Step ==
    \A w \in Workers :
        (Acts(w) /\ (visited_urls' # visited_urls
                       \/ duplicate_images_urls' # duplicate_images_urls)) => ol = w
C11_MutationsUnderLock == [][C11Step]_vars

\* C12: a worker is inside a "with ol:" block exactly when it holds the lock, so
\* at most one worker is inside one; and the valid file and the invalid file
\* change only by a step of the holder that leaves its block: the one row
\* [url, level] goes to the valid file, or all the rows of its invalid_urls go
\* to the invalid file in one piece.
InBlock(w) == pc[w] \in {"log_held", "valid_held", "error_held", "invalid_held"}
C12Mutex ==
    /\ \A w \in Workers : InBlock(w) <=> ol = w
    /\ Cardinality({w \in Workers : InBlock(w)}) <= 1
C12Step ==
    (valid_rows' # valid_rows \/ invalid_rows' # invalid_rows) =>
        \E w \in Started :
            /\ Acts(w) /\ ol = w /\ ol' = 0
            /\ \/ /\ pc[w] = "valid_held"
                  /\ valid_rows' = Append(valid_rows, <<url[w], level[w]>>)
                  /\ invalid_rows' = invalid_rows
               \/ /\ pc[w] = "invalid_held"
                  /\ invalid_rows' = invalid_rows \o invalid_urls[w]
                  /\ valid_rows' = valid_rows
C12_WritesUnderOneLock == []C12Mutex /\ [][C12Step]_vars

\* a worker holds the lock with two rows to write to the invalid file while
\* the other one waits for the lock with a row for the valid file
W_C12 ==
    \E w, v \in Started :
        /\ w # v
        /\ pc[w] = "invalid_held" /\ Len(invalid_urls[w]) >= 2
        /\ pc[v] = "valid"

\* C13: a worker that is about to call or is inside requests.get does not hold
\* the lock ol (the only lock of the program the workers take), so the lock
\* does not keep another worker from fetching or from writing its rows.
C13_FetchWithoutLock == \A w \in Workers : pc[w] = "fetch" => ol # w

\* a worker is fetching while another one holds the lock to write its rows,
\* and two workers are fetching at once
Fetching(w) == pc[w] = "fetch"
W_C13 ==
    \E w, v \in Started :
        /\ w # v
        /\ Fetching(w)
        /\ pc[v] = "invalid_held" /\ ol = v
W_C13_Both == \E w, v \in Started : w # v /\ Fetching(w) /\ Fetching(v)

\* C14 as stated: when a worker is about to mark done an item it did not skip,
\* its turn has written either one row of the item's URL to the valid file and
\* none to the invalid file, or no row to the valid file and one or more rows
\* of the item's URL to the invalid file.
C14_OneValidOrSomeInvalid ==
    \A w \in Started :
        pc[w] = "task_done" =>
            \/ turn[w].valid = 1 /\ turn[w].own = 0
            \/ turn[w].valid = 0 /\ turn[w].own >= 1

\* C15 as stated: once a worker has written the rows of a page that holds the
\* link "::not a url::", the invalid file has a PARSE_ERROR row for that link;
\* the link is never put in the queue, in any form; and the links of the
\* page that parse and stay on the site are put or were found visited.
HasMalformedLink(u) ==
    LET resp == Fetch(site, u) IN
    resp.ok /\ resp.ctype = "text/html" /\ ~resp.throws /\ InSeq(NotAUrl, resp.links)
RowsWritten(w) == pc[w] \in {"visited", "task_done"}
C15_MalformedLinkIsParseError ==
    /\ \A w \in Started :
        (RowsWritten(w) /\ HasMalformedLink(url[w])) =>
            /\ \E i \in 1..Len(invalid_rows) :
                /\ invalid_rows[i][1] \in {NotAUrl, PNotAUrl}
                /\ invalid_rows[i][2] = PARSE_ERROR
            /\ \A l \in SeqToSet(Fetch(site, url[w]).links) \ {NotAUrl} :
                LET nl == new_link(url[w], l) IN
                (validate_url(nl).kind = "ok" /\ nl.netloc = url[w].netloc) =>
                    (InSeq(nl, visited_urls) \/ <<nl, level[w]>> \in discovered)
    /\ \A i \in 1..Len(queue) : queue[i][1] \notin {NotAUrl, PNotAUrl}
    /\ \A d \in discovered : d[1] \notin {NotAUrl, PNotAUrl}

\* C16 as stated: when the orchestrator stops the workers after an interrupt, a
\* worker that is cut short before it has written the rows of its turn has
\* written no row at all in that turn, neither for its URL nor for its links.
CutShort(w) ==
    pc[w] \in {"check_visited", "log", "log_held", "fetch", "valid", "valid_held", "content",
               "push", "put", "error", "error_held", "invalid", "invalid_held"}
C16Step ==
    (mainpc = "shutdown" /\ mainpc' = "close") =>
        \A w \in Started :
            CutShort(w) => (turn[w].valid = 0 /\ turn[w].own = 0 /\ turn[w].sub = 0)
C16_NoPartialResult == [][C16Step]_vars

\* C17: a worker that tests an item whose URL is in visited_urls goes to the
\* skip, and the skip marks the item done and leads back to queue.get(); both
\* steps leave the queue, the files, visited_urls, the recorded images, the
\* lock and the fetches alone, and the turn has written and fetched nothing.
C17Frame ==
    UNCHANGED <<queue, visited_urls, duplicate_images_urls, sinks, ol, fetches, discovered>>
C17Step ==
    \A w \in Started :
        /\ (Acts(w) /\ pc[w] = "check_visited" /\ InSeq(url[w], visited_urls)) =>
              (pc'[w] = "skip_visited" /\ unfinished' = unfinished /\ C17Frame)
        /\ (Acts(w) /\ pc[w] = "skip_visited") =>
              (pc'[w] = "get" /\ unfinished' = unfinished - 1 /\ C17Frame)
C17Skipped ==
    \A w \in Started :
        pc[w] = "skip_visited" =>
            (InSeq(url[w], visited_urls) /\ turn[w] = NoTurn /\ topush[w] = {} /\ ol # w)
C17_VisitedSkipFrame == []C17Skipped /\ [][C17Step]_vars

\* a worker is at the skip of a visited URL that has its row in the valid file
W_C17 == \E w \in Started : pc[w] = "skip_visited" /\ ValidRowsOf(url[w]) # {}

\* C18: from the failure of requests.get to the end of the turn, the worker's
\* invalid_urls is the one row (url, DOWNLOAD_ERROR); its steps put nothing,
\* record no image and write no row to the valid file; the only row it writes
\* is that one, to the invalid file; the URL is in visited_urls when the item is
\* marked done; visited_urls only grows, and an item whose URL is in it, tested
\* after that, is skipped and not fetched.
Failed(w) == InSeq(<<url[w], DOWNLOAD_ERROR>>, invalid_urls[w])
C18State ==
    \A w \in Started :
        Failed(w) =>
            /\ pc[w] \in {"invalid", "invalid_held", "visited", "task_done"}
            /\ invalid_urls[w] = <<(<<url[w], DOWNLOAD_ERROR>>)>>
            /\ topush[w] = {}
            /\ turn[w].valid = 0 /\ turn[w].sub = 0 /\ turn[w].puts = 0 /\ ~turn[w].error
            /\ turn[w].own = (IF pc[w] \in {"visited", "task_done"} THEN 1 ELSE 0)
            /\ pc[w] = "task_done" => InSeq(url[w], visited_urls)
C18Step ==
    /\ \A w \in Started :
        (Acts(w) /\ Failed(w)) =>
            /\ UNCHANGED <<queue, duplicate_images_urls, valid_rows, fetches, discovered>>
            /\ invalid_rows' \in {invalid_rows, Append(invalid_rows, <<url[w], DOWNLOAD_ERROR>>)}
            /\ pc[w] = "task_done" => (pc'[w] = "get" /\ unfinished' = unfinished - 1)
    /\ Len(visited_urls') >= Len(visited_urls)
    /\ SubSeq(visited_urls', 1, Len(visited_urls)) = visited_urls
    /\ \A v \in Started :
        (Acts(v) /\ pc[v] = "check_visited" /\ InSeq(url[v], visited_urls)) =>
            (pc'[v] = "skip_visited" /\ fetches' = fetches)
C18_DownloadFailure == []C18State /\ [][C18Step]_vars

\* a worker is about to mark done an item whose download failed, with the row
\* in the invalid file
W_C18 ==
    \E w \in Started :
        /\ pc[w] = "task_done" /\ Failed(w)
        /\ InSeq(<<url[w], DOWNLOAD_ERROR>>, invalid_rows)
        /\ url[w] \notin DOMAIN site

\* C19: from an exception that line 135 catches to the end of the turn, the
\* worker has put no item and puts none, the handler leaves the files alone,
\* no row of the turn is for the item's URL (the rows of the links classified
\* before the exception are written as usual), and the worker appends the URL
\* to visited_urls, marks the item done and is back at queue.get().
Caught(w) == pc[w] \in {"error", "error_held"} \/ turn[w].error
C19State ==
    \A w \in Started :
        Caught(w) =>
            /\ pc[w] \in {"error", "error_held", "invalid", "invalid_held", "visited", "task_done"}
            /\ topush[w] = {} /\ putting[w] = NoUrl /\ turn[w].puts = 0
            /\ turn[w].own = 0 /\ RowsOf(invalid_urls[w], url[w]) = {}
            /\ pc[w] = "task_done" => InSeq(url[w], visited_urls)
C19Step ==
    \A w \in Started :
        (Acts(w) /\ Caught(w)) =>
            /\ UNCHANGED <<queue, duplicate_images_urls, valid_rows, fetches, discovered>>
            /\ pc[w] \in {"error", "error_held"} => UNCHANGED <<sinks, visited_urls>>
            /\ invalid_rows' \in {invalid_rows, invalid_rows \o invalid_urls[w]}
            /\ pc[w] = "visited" => visited_urls' = Append(visited_urls, url[w])
            /\ pc[w] = "task_done" => (pc'[w] = "get" /\ unfinished' = unfinished - 1)
C19_UnexpectedError == []C19State /\ [][C19Step]_vars

\* a worker is about to mark done a page the link extractor raised on, with
\* the page's row in the valid file
W_C19 ==
    \E w \in Started :
        /\ pc[w] = "task_done" /\ turn[w].error
        /\ Fetch(site, url[w]).throws
        /\ turn[w].valid = 1

\* the links of a page that parse and have the page's netloc, each taken on
\* its own
LinksOf(s, u) ==
    LET resp == Fetch(s, u) IN
    IF resp.ok /\ resp.ctype = "text/html" /\ ~resp.throws
    THEN UNION {SeqToSet(classify(u, <<resp.links[i]>>, <<>>, <<>>).valid_urls) :
                    i \in 1..Len(resp.links)}
    ELSE {}
RECURSIVE WithinHops(_, _)
WithinHops(s, k) ==
    IF k = 0 THEN {starting_url}
    ELSE LET prev == WithinHops(s, k - 1) IN prev \cup UNION {LinksOf(s, u) : u \in prev}
MinHops(u, d) == u \in WithinHops(site, d) /\ (d = 0 \/ u \notin WithinHops(site, d - 1))

\* with one worker the queue is sorted by level and holds no level below the
\* one of the item in hand (so the levels got never decrease)
C20Order ==
    /\ \A i, j \in 1..Len(queue) : i <= j => queue[i][2] <= queue[j][2]
    /\ \A w \in Started : Holding(w) => \A i \in 1..Len(queue) : level[w] <= queue[i][2]
C20MinHops == \A i \in 1..Len(valid_rows) : MinHops(valid_rows[i][1], valid_rows[i][2])
C20Attempted == mainpc = "done" => \A u \in WithinHops(site, MAX_DEPTH_LEVEL) : Attempted(u)

\* C20 as stated: in a run of one worker from a seed that parses, the levels
\* of the items got never decrease, every row of the valid file has the least
\* number of links that lead from the seed to its URL, and when the run is over
\* every URL within MAX_DEPTH_LEVEL links of the seed has a row in the valid file
\* or a DOWNLOAD_ERROR row.
C20_SingleWorkerBreadthFirst ==
    (nworkers = 1 /\ validate_url(starting_url).kind = "ok") =>
        (C20Order /\ C20MinHops /\ C20Attempted)

====
